---------------------------- MODULE Spec2Model ----------------------------
(***************************************************************************)
(* A model of the CHIP-8 interpreter of src/src/main.rs.                   *)
(*                                                                         *)
(* The machine state is the record chip (struct ChipContext).  One step    *)
(* of the model is one iteration of the 'running loop of main: the host    *)
(* events are polled, one opcode is fetched and dispatched, the timers     *)
(* are ticked.  The instruction functions of main.rs are operators from    *)
(* a chip record to an outcome [chip, panic]; a Rust panic (an index out   *)
(* of bounds, an arithmetic overflow in a build with overflow checks, the  *)
(* panic! of the dispatch) ends the run with the state the panic left.     *)
(***************************************************************************)
EXTENDS Integers, Sequences, FiniteSets, TLC

VARIABLES
    chip,             \* the ChipContext
    run,              \* "running", "quit" (break 'running) or the panic message
    overflow_checks,  \* whether the build panics on integer overflow (debug) or wraps (release)
    last_update,      \* milliseconds elapsed since the Instant stored in last_update
    host,             \* the host of this run: the keys its user touches, the durations of its loop iterations
    calls,            \* history: the CALLs that have not returned yet, innermost first
    hist,             \* history: the last cycles, most recent first
    since,            \* history: per timer, the value last set, the ticks and the time since
    image             \* history: the cells changed since the load, as loaded, and the cells an Fx33 or Fx55 aimed at

vars == <<chip, run, overflow_checks, last_update, host, calls, hist, since, image>>

---------------------------------------------------------------------------
(* Machine integers and bits *)

U8 == 256

U16 == 65536

Bit(n, k) == (n \div (2 ^ k)) % 2

\* a bitwise operator on two u8, bit by bit
Bitwise(a, b, op) ==
    LET f[k \in 0..8] == IF k = 8 THEN 0 ELSE op[Bit(a, k), Bit(b, k)] * (2 ^ k) + f[k + 1]
    IN  f[0]

BitOr == [p \in 0..1, q \in 0..1 |-> IF p + q > 0 THEN 1 ELSE 0]

BitAnd == [p \in 0..1, q \in 0..1 |-> p * q]

BitXor == [p \in 0..1, q \in 0..1 |-> (p + q) % 2]

\* macros.rs is not part of the sources at hand: Kilobytes!(n) is n * 1024 bytes
Kilobytes(n) == n * 1024

MemSize == Kilobytes(4)

StackSize == 16

NumKeys == 16

Width == 64

Height == 32

FontBase == \h50

RomBase == \h200

\* the panic messages of the runtime and of the dispatch
IndexOutOfBounds == "index out of bounds"

AddOverflow == "attempt to add with overflow"

SubOverflow == "attempt to subtract with overflow"

InvalidOpcode == "Invalid opcode"

PanicMessages == {IndexOutOfBounds, AddOverflow, SubOverflow, InvalidOpcode}

Ok(c) == [chip |-> c, panic |-> "none"]

Panic(c, why) == [chip |-> c, panic |-> why]

---------------------------------------------------------------------------
(* Memory: [u8; 4096], zero-initialised.  The model keeps the cells that   *)
(* are not zero: a function from their addresses to their bytes.           *)

MemRead(memory, a) == IF a \in DOMAIN memory THEN memory[a] ELSE 0

MemWrite(memory, a, b) ==
    IF b = 0
    THEN [k \in DOMAIN memory \ {a} |-> memory[k]]
    ELSE [k \in DOMAIN memory \cup {a} |-> IF k = a THEN b ELSE memory[k]]

\* memory[base .. base + Len(bytes)] = bytes (copy_from_slice, Read::read)
MemCopy(memory, base, bytes) ==
    LET at == {base + k - 1 : k \in {j \in 1..Len(bytes) : bytes[j] # 0}}
        cleared == {base + k - 1 : k \in 1..Len(bytes)}
    IN  [a \in (DOMAIN memory \ cleared) \cup at |->
            IF a \in cleared THEN bytes[a - base + 1] ELSE memory[a]]

FontData ==
    << \hF0, \h90, \h90, \h90, \hF0,
       \h20, \h60, \h20, \h20, \h70,
       \hF0, \h10, \hF0, \h80, \hF0,
       \hF0, \h10, \hF0, \h10, \hF0,
       \h90, \h90, \hF0, \h10, \h10,
       \hF0, \h80, \hF0, \h10, \hF0,
       \hF0, \h80, \hF0, \h90, \hF0,
       \hF0, \h10, \h20, \h40, \h40,
       \hF0, \h90, \hF0, \h90, \hF0,
       \hF0, \h90, \hF0, \h10, \hF0,
       \hF0, \h90, \hF0, \h90, \h90,
       \hE0, \h90, \hE0, \h90, \hE0,
       \hF0, \h80, \h80, \h80, \hF0,
       \hE0, \h90, \h90, \h90, \hE0,
       \hF0, \h80, \hF0, \h80, \hF0,
       \hF0, \h80, \hF0, \h80, \h80 >>

\* a Rust array is indexed from 0, the sequence that models it from 1
Ix(k) == k + 1

\* ChipContext::new; the framebuffer is the set of the pixels <<x, y>> that are on,
\* the keyboard the set of the keys 0..15 whose flag is true
new ==
    [ memory      |-> [a \in {} |-> 0],
      v           |-> [r \in 1..16 |-> 0],
      st          |-> 0,
      dt          |-> 0,
      pc          |-> 0,
      sp          |-> 0,
      i           |-> 0,
      stack       |-> [k \in 1..StackSize |-> 0],
      framebuffer |-> {},
      keyboard    |-> {} ]

load_font(c) == [c EXCEPT !.memory = MemCopy(@, FontBase, FontData)]

\* one read into memory[0x200..4096]: a longer file is cut at the end of memory
load_rom(c, bytes) ==
    LET room == MemSize - RomBase
        n == IF Len(bytes) < room THEN Len(bytes) ELSE room
    IN  [c EXCEPT !.memory = MemCopy(@, RomBase, SubSeq(bytes, 1, n)), !.pc = RomBase]

---------------------------------------------------------------------------
(* The instructions *)

\* 00E0 - CLS
clean_screen(c) == Ok([c EXCEPT !.framebuffer = {}])

\* return_sbr that reads the stack before it lowers sp (a post-decrement)
return_sbr_post_decrement(c) ==
    LET sp1 == (c.sp - 1) % U8
    IN  IF c.sp = 0 /\ overflow_checks THEN Panic(c, SubOverflow)
        ELSE IF c.sp >= StackSize THEN Panic(c, IndexOutOfBounds)
        ELSE Ok([c EXCEPT !.sp = sp1, !.pc = c.stack[Ix(c.sp)]])

\* 00EE - RET
return_sbr(c) ==
    LET sp1 == (c.sp - 1) % U8
        c1 == [c EXCEPT !.sp = sp1]
    IN  IF c.sp = 0 /\ overflow_checks THEN Panic(c, SubOverflow)
        ELSE IF sp1 >= StackSize THEN Panic(c1, IndexOutOfBounds)
        ELSE Ok([c1 EXCEPT !.pc = c1.stack[Ix(sp1)]])

\* 1nnn - JP addr
jump(c, nnn) == Ok([c EXCEPT !.pc = nnn])

\* 2nnn - CALL addr
call_sbr(c, nnn) ==
    IF c.sp >= StackSize THEN Panic(c, IndexOutOfBounds)
    ELSE Ok([c EXCEPT !.stack[Ix(c.sp)] = c.pc, !.sp = c.sp + 1, !.pc = nnn])

\* 3xkk - SE Vx, byte
skip_if(c, x, kk) == Ok(IF c.v[Ix(x)] = kk THEN [c EXCEPT !.pc = @ + 2] ELSE c)

\* 4xkk - SNE Vx, byte
skip_diff(c, x, kk) == Ok(IF c.v[Ix(x)] # kk THEN [c EXCEPT !.pc = @ + 2] ELSE c)

\* 5xy0 - SE Vx, Vy
skip_equals(c, x, y) == Ok(IF c.v[Ix(x)] = c.v[Ix(y)] THEN [c EXCEPT !.pc = @ + 2] ELSE c)

\* 6xkk - LD Vx, byte
load(c, x, kk) == Ok([c EXCEPT !.v[Ix(x)] = kk])

\* add that sets VF to the carry
add_with_carry(c, x, kk) ==
    Ok([c EXCEPT !.v[Ix(x)] = (c.v[Ix(x)] + kk) % U8,
                 !.v[Ix(15)] = IF c.v[Ix(x)] + kk >= U8 THEN 1 ELSE 0])

\* 7xkk - ADD Vx, byte
add(c, x, kk) == Ok([c EXCEPT !.v[Ix(x)] = (c.v[Ix(x)] + kk) % U8])

\* 8xy0 - LD Vx, Vy
load_vx_vy(c, x, y) == Ok([c EXCEPT !.v[Ix(x)] = c.v[Ix(y)]])

\* 8xy1 - OR Vx, Vy
or(c, x, y) == Ok([c EXCEPT !.v[Ix(x)] = Bitwise(c.v[Ix(x)], c.v[Ix(y)], BitOr)])

\* 8xy2 - AND Vx, Vy
and(c, x, y) == Ok([c EXCEPT !.v[Ix(x)] = Bitwise(c.v[Ix(x)], c.v[Ix(y)], BitAnd)])

\* 8xy3 - XOR Vx, Vy
xor(c, x, y) == Ok([c EXCEPT !.v[Ix(x)] = Bitwise(c.v[Ix(x)], c.v[Ix(y)], BitXor)])

\* add_vx_vy with the carry taken one too early (sum >= 0xFF)
add_vx_vy_carry_at_255(c, x, y) ==
    LET sum == c.v[Ix(x)] + c.v[Ix(y)]
        c1 == [c EXCEPT !.v[Ix(x)] = sum % U8]
    IN  Ok([c1 EXCEPT !.v[Ix(15)] = IF sum >= 255 THEN 1 ELSE 0])

\* 8xy4 - ADD Vx, Vy: the sum is taken first, then Vx, then VF are written
add_vx_vy(c, x, y) ==
    LET sum == c.v[Ix(x)] + c.v[Ix(y)]
        c1 == [c EXCEPT !.v[Ix(x)] = sum % U8]
    IN  Ok([c1 EXCEPT !.v[Ix(15)] = IF sum > 255 THEN 1 ELSE 0])

\* 8xy5 - SUB Vx, Vy: VF is written first, the difference reads the registers after it
sub(c, x, y) ==
    LET c1 == [c EXCEPT !.v[Ix(15)] = IF c.v[Ix(x)] > c.v[Ix(y)] THEN 1 ELSE 0]
    IN  Ok([c1 EXCEPT !.v[Ix(x)] = (c1.v[Ix(x)] - c1.v[Ix(y)]) % U8])

\* 8xy6 - SHR Vx Vy: VF is written first, the shift reads Vx after it
shr(c, x, y) ==
    LET c1 == [c EXCEPT !.v[Ix(15)] = c.v[Ix(x)] % 2]
    IN  Ok([c1 EXCEPT !.v[Ix(x)] = c1.v[Ix(x)] \div 2])

\* 8xy7 - SUBN Vx, Vy
subn(c, x, y) ==
    LET c1 == [c EXCEPT !.v[Ix(15)] = IF c.v[Ix(y)] > c.v[Ix(x)] THEN 1 ELSE 0]
    IN  Ok([c1 EXCEPT !.v[Ix(x)] = (c1.v[Ix(y)] - c1.v[Ix(x)]) % U8])

\* 8xyE - SHL Vx Vy
shl(c, x, y) ==
    LET c1 == [c EXCEPT !.v[Ix(15)] = Bit(c.v[Ix(x)], 7)]
    IN  Ok([c1 EXCEPT !.v[Ix(x)] = (c1.v[Ix(x)] * 2) % U8])

\* sne that skips when the registers are equal
sne_inverted(c, x, y) == Ok(IF c.v[Ix(x)] = c.v[Ix(y)] THEN [c EXCEPT !.pc = @ + 2] ELSE c)

\* 9xy0 - SNE Vx, Vy
sne(c, x, y) == Ok(IF c.v[Ix(x)] # c.v[Ix(y)] THEN [c EXCEPT !.pc = @ + 2] ELSE c)

\* Annn - LD I, addr
set_index(c, nnn) == Ok([c EXCEPT !.i = nnn])

\* Bnnn - JP V0, addr
jump_v0(c, nnn) == Ok([c EXCEPT !.pc = nnn + c.v[Ix(0)]])

\* Cxkk - RND Vx, byte; random is the byte rand::random::<u8>() returns
rnd(c, x, kk, random) == Ok([c EXCEPT !.v[Ix(x)] = Bitwise(random, kk, BitAnd)])

\* draw_bits that sets the pixels of the sprite instead of toggling them
RECURSIVE draw_bits_or(_, _, _, _, _)
draw_bits_or(c, x_temp, y_coord, byte, bitset) ==
    IF bitset < 0 THEN c
    ELSE LET swap_pixel == Bit(byte, bitset) # 0
             lit == <<x_temp, y_coord>> \in c.framebuffer
             c1 == IF lit /\ swap_pixel THEN [c EXCEPT !.v[Ix(15)] = 1] ELSE c
             c2 == [c1 EXCEPT !.framebuffer =
                       IF lit \/ swap_pixel THEN @ \cup {<<x_temp, y_coord>>} ELSE @]
         IN  draw_bits_or(c2, (x_temp + 1) % Width, y_coord, byte, bitset - 1)

\* one row of a sprite: the bits 7..0 of byte from x_temp on, wrapping at 64
RECURSIVE draw_bits(_, _, _, _, _)
draw_bits(c, x_temp, y_coord, byte, bitset) ==
    IF bitset < 0 THEN c
    ELSE LET swap_pixel == Bit(byte, bitset) # 0
             lit == <<x_temp, y_coord>> \in c.framebuffer
             c1 == IF lit /\ swap_pixel THEN [c EXCEPT !.v[Ix(15)] = 1] ELSE c
             c2 == [c1 EXCEPT !.framebuffer =
                       IF lit # swap_pixel THEN @ \cup {<<x_temp, y_coord>>}
                                           ELSE @ \ {<<x_temp, y_coord>>}]
         IN  draw_bits(c2, (x_temp + 1) % Width, y_coord, byte, bitset - 1)

\* the rows offset..n-1; memory[i + offset] is read (at each bit of the row: once here,
\* memory does not change during a draw) and that index may panic
RECURSIVE draw_rows(_, _, _, _, _)
draw_rows(c, x_coord, y_coord, offset, n) ==
    IF offset >= n THEN Ok(c)
    ELSE IF c.i + offset >= U16 /\ overflow_checks THEN Panic(c, AddOverflow)
    ELSE LET addr == (c.i + offset) % U16
         IN  IF addr >= MemSize THEN Panic(c, IndexOutOfBounds)
             ELSE draw_rows(draw_bits(c, x_coord, y_coord, MemRead(c.memory, addr), 7),
                            x_coord, (y_coord + 1) % Height, offset + 1, n)

\* draw that does not clear VF before it draws
draw_keeps_vf(c, x, y, n) ==
    LET x_coord == c.v[Ix(x)] % Width
        y_coord == c.v[Ix(y)] % Height
    IN  draw_rows(c, x_coord, y_coord, 0, n)

\* Dxyn - DRW Vx, Vy, nibble
draw(c, x, y, n) ==
    LET x_coord == c.v[Ix(x)] % Width
        y_coord == c.v[Ix(y)] % Height
    IN  draw_rows([c EXCEPT !.v[Ix(15)] = 0], x_coord, y_coord, 0, n)

\* Ex9E - SKP Vx
skip_key(c, x) ==
    IF c.v[Ix(x)] >= NumKeys THEN Panic(c, IndexOutOfBounds)
    ELSE Ok(IF c.v[Ix(x)] \in c.keyboard THEN [c EXCEPT !.pc = @ + 2] ELSE c)

\* ExA1 - SKNP Vx
skip_not_key(c, x) ==
    IF c.v[Ix(x)] >= NumKeys THEN Panic(c, IndexOutOfBounds)
    ELSE Ok(IF c.v[Ix(x)] \notin c.keyboard THEN [c EXCEPT !.pc = @ + 2] ELSE c)

\* Fx07 - LD Vx, DT
load_vx_dt(c, x) == Ok([c EXCEPT !.v[Ix(x)] = c.dt])

\* load_key that does not rewind pc when no key is down
load_key_no_rewind(c, x) ==
    LET down == {k \in 0..(NumKeys - 1) : k \in c.keyboard}
    IN  IF down # {}
        THEN Ok([c EXCEPT !.v[Ix(x)] = CHOOSE k \in down : \A j \in down : k <= j])
        ELSE Ok(c)

\* Fx0A - LD Vx, K
load_key(c, x) ==
    LET down == {k \in 0..(NumKeys - 1) : k \in c.keyboard}
    IN  IF down # {}
        THEN Ok([c EXCEPT !.v[Ix(x)] = CHOOSE k \in down : \A j \in down : k <= j])
        ELSE IF c.pc < 2 /\ overflow_checks THEN Panic(c, SubOverflow)
        ELSE Ok([c EXCEPT !.pc = (c.pc - 2) % U16])

\* Fx15 - LD DT, Vx
load_dt_vx(c, x) == Ok([c EXCEPT !.dt = c.v[Ix(x)]])

\* Fx18 - LD ST, Vx
load_st_vx(c, x) == Ok([c EXCEPT !.st = c.v[Ix(x)]])

\* Fx1E - ADD I, Vx
add_i_vx(c, x) ==
    IF c.i + c.v[Ix(x)] >= U16 /\ overflow_checks THEN Panic(c, AddOverflow)
    ELSE Ok([c EXCEPT !.i = (c.i + c.v[Ix(x)]) % U16])

\* load_f_vx with the glyphs 4 bytes apart
load_f_vx_stride_4(c, x) == Ok([c EXCEPT !.i = \h50 + c.v[Ix(x)] * 4])

\* Fx29 - LD F, Vx
load_f_vx(c, x) == Ok([c EXCEPT !.i = \h50 + c.v[Ix(x)] * 5])

\* store with no bounds check on the index
store_unchecked(c, k, byte) ==
    IF c.i + k >= U16 /\ overflow_checks THEN Panic(c, AddOverflow)
    ELSE Ok([c EXCEPT !.memory = MemWrite(@, (c.i + k) % U16, byte)])

\* memory[(i + k) as usize] = byte: the u16 sum and the index may panic
store(c, k, byte) ==
    IF c.i + k >= U16 /\ overflow_checks THEN Panic(c, AddOverflow)
    ELSE LET addr == (c.i + k) % U16
         IN  IF addr >= MemSize THEN Panic(c, IndexOutOfBounds)
             ELSE Ok([c EXCEPT !.memory = MemWrite(@, addr, byte)])

\* load_b_vx whose tens digit is not reduced mod 10
load_b_vx_tens_unreduced(c, x) ==
    LET w0 == store(c, 0, c.v[Ix(x)] \div 100)
        w1 == IF w0.panic # "none" THEN w0 ELSE store(w0.chip, 1, c.v[Ix(x)] \div 10)
    IN  IF w1.panic # "none" THEN w1 ELSE store(w1.chip, 2, c.v[Ix(x)] % 10)

\* Fx33 - LD B, Vx
load_b_vx(c, x) ==
    LET w0 == store(c, 0, c.v[Ix(x)] \div 100)
        w1 == IF w0.panic # "none" THEN w0 ELSE store(w0.chip, 1, (c.v[Ix(x)] \div 10) % 10)
    IN  IF w1.panic # "none" THEN w1 ELSE store(w1.chip, 2, c.v[Ix(x)] % 10)

\* Fx55 - LD [I], Vx: for i in 0..=x, from register k on
RECURSIVE load_i_vx_from(_, _, _)
load_i_vx_from(c, x, k) ==
    IF k > x THEN Ok(c)
    ELSE LET w == store(c, k, c.v[Ix(k)])
         IN  IF w.panic # "none" THEN w ELSE load_i_vx_from(w.chip, x, k + 1)

\* load_i_vx over 0..x, x left out
load_i_vx_exclusive(c, x) == load_i_vx_from(c, x - 1, 0)

load_i_vx(c, x) == load_i_vx_from(c, x, 0)

\* Fx65 - LD Vx, [I]: for i in 0..=x, from register k on
RECURSIVE load_vx_i_from(_, _, _)
load_vx_i_from(c, x, k) ==
    IF k > x THEN Ok(c)
    ELSE IF c.i + k >= U16 /\ overflow_checks THEN Panic(c, AddOverflow)
    ELSE LET addr == (c.i + k) % U16
         IN  IF addr >= MemSize THEN Panic(c, IndexOutOfBounds)
             ELSE load_vx_i_from([c EXCEPT !.v[Ix(k)] = MemRead(c.memory, addr)], x, k + 1)

\* load_vx_i that stores the registers, as Fx55 does
load_vx_i_storing(c, x) == load_i_vx_from(c, x, 0)

load_vx_i(c, x) == load_vx_i_from(c, x, 0)

---------------------------------------------------------------------------
(* The opcode dispatch of main *)

Nibble(opcode, k) == (opcode \div (16 ^ k)) % 16

LowByte(opcode) == opcode % 256

Low12(opcode) == opcode % 4096

\* match opcode >> 12 { ... }: x = (opcode & 0x0F00) >> 8, y = (opcode & 0x00F0) >> 4
Dispatch(c, opcode, random) ==
    LET x == Nibble(opcode, 2)
        y == Nibble(opcode, 1)
        n == Nibble(opcode, 0)
        kk == LowByte(opcode)
        nnn == Low12(opcode)
        top == Nibble(opcode, 3)
    IN  CASE top = 0 ->
                (CASE kk = \h00 -> Ok(c)
                   [] kk = \hE0 -> clean_screen(c)
                   [] kk = \hEE -> return_sbr(c)
                   [] OTHER -> Panic(c, InvalidOpcode))
          [] top = 1 -> jump(c, nnn)
          [] top = 2 -> call_sbr(c, nnn)
          [] top = 3 -> skip_if(c, x, kk)
          [] top = 4 -> skip_diff(c, x, kk)
          [] top = 5 -> skip_equals(c, x, y)
          [] top = 6 -> load(c, x, kk)
          [] top = 7 -> add(c, x, kk)
          [] top = 8 ->
                (CASE n = 0 -> load_vx_vy(c, x, y)
                   [] n = 1 -> or(c, x, y)
                   [] n = 2 -> and(c, x, y)
                   [] n = 3 -> xor(c, x, y)
                   [] n = 4 -> add_vx_vy(c, x, y)
                   [] n = 5 -> sub(c, x, y)
                   [] n = 6 -> shr(c, x, y)
                   [] n = 7 -> subn(c, x, y)
                   [] n = 14 -> shl(c, x, y)
                   [] OTHER -> Panic(c, InvalidOpcode))
          [] top = 9 -> sne(c, x, y)
          [] top = 10 -> set_index(c, nnn)
          [] top = 11 -> jump_v0(c, nnn)
          [] top = 12 -> rnd(c, x, kk, random)
          [] top = 13 -> draw(c, x, y, n)
          [] top = 14 ->
                (CASE kk = \h9E -> skip_key(c, x)
                   [] kk = \hA1 -> skip_not_key(c, x)
                   [] OTHER -> Panic(c, InvalidOpcode))
          [] top = 15 ->
                (CASE kk = \h07 -> load_vx_dt(c, x)
                   [] kk = \h0A -> load_key(c, x)
                   [] kk = \h15 -> load_dt_vx(c, x)
                   [] kk = \h18 -> load_st_vx(c, x)
                   [] kk = \h1E -> add_i_vx(c, x)
                   [] kk = \h29 -> load_f_vx(c, x)
                   [] kk = \h33 -> load_b_vx(c, x)
                   [] kk = \h55 -> load_i_vx(c, x)
                   [] kk = \h65 -> load_vx_i(c, x)
                   [] OTHER -> Panic(c, InvalidOpcode))

---------------------------------------------------------------------------
(* The host: events, keys, the 60 Hz clock *)

\* key2btn: Some(k) is {k}, None is {}
key2btn(key) ==
    CASE key = "Num1" -> {1}
      [] key = "Num2" -> {2}
      [] key = "Num3" -> {3}
      [] key = "Num4" -> {12}
      [] key = "Q" -> {4}
      [] key = "W" -> {5}
      [] key = "E" -> {6}
      [] key = "R" -> {13}
      [] key = "A" -> {7}
      [] key = "S" -> {8}
      [] key = "D" -> {9}
      [] key = "F" -> {14}
      [] key = "Z" -> {10}
      [] key = "X" -> {0}
      [] key = "C" -> {11}
      [] key = "V" -> {15}
      [] OTHER -> {}

QuitEvent == [type |-> "Quit", keycode |-> "none"]

KeyDown(key) == [type |-> "KeyDown", keycode |-> key]

KeyUp(key) == [type |-> "KeyUp", keycode |-> key]

\* Event::Quit and KeyDown of Escape break 'running
Breaks(event) == event = QuitEvent \/ event = KeyDown("Escape")

\* for event in event_pump.poll_iter(), from the k-th event of the batch on
RECURSIVE poll_from(_, _, _)
poll_from(c, batch, k) ==
    IF k > Len(batch) THEN [chip |-> c, quit |-> FALSE]
    ELSE LET event == batch[k]
             btn == key2btn(event.keycode)
         IN  IF Breaks(event) THEN [chip |-> c, quit |-> TRUE]
             ELSE IF event.type \in {"KeyDown", "KeyUp"} /\ btn # {}
             THEN poll_from([c EXCEPT !.keyboard = IF event.type = "KeyDown" THEN @ \cup btn
                                                                              ELSE @ \ btn],
                            batch, k + 1)
             ELSE poll_from(c, batch, k + 1)

poll(c, batch) == poll_from(c, batch, 1)

\* byte1, byte2, opcode, chip.pc += 2
fetch(c) ==
    IF c.pc >= MemSize \/ c.pc + 1 >= MemSize
    THEN [chip |-> c, panic |-> IndexOutOfBounds, opcode |-> -1]
    ELSE [chip |-> [c EXCEPT !.pc = @ + 2], panic |-> "none",
          opcode |-> MemRead(c.memory, c.pc) * 256 + MemRead(c.memory, c.pc + 1)]

\* Duration::from_millis(1000 / 60)
clock == 1000 \div 60

\* a tick that wraps a timer at 0 to 255
timer_tick_wrapping(c, elapsed) ==
    IF elapsed >= clock
    THEN [chip |-> [c EXCEPT !.dt = (c.dt - 1) % U8, !.st = (c.st - 1) % U8],
          last_update |-> 0, ticked |-> TRUE]
    ELSE [chip |-> c, last_update |-> elapsed, ticked |-> FALSE]

\* if last_update.elapsed() >= clock { ... }, elapsed in milliseconds
timer_tick(c, elapsed) ==
    IF elapsed >= clock
    THEN [chip |-> [c EXCEPT !.dt = IF c.dt > 0 THEN c.dt - 1 ELSE 0,
                             !.st = IF c.st > 0 THEN c.st - 1 ELSE 0],
          last_update |-> 0, ticked |-> TRUE]
    ELSE [chip |-> c, last_update |-> elapsed, ticked |-> FALSE]

\* the batches of at most MaxBatch events one poll_iter may deliver
MaxBatch == 2

RECURSIVE BatchesOf(_, _)
BatchesOf(events, len) ==
    IF len = 0 THEN {<<>>}
    ELSE LET shorter == BatchesOf(events, len - 1)
         IN  shorter \cup {Append(b, e) : b \in shorter, e \in events}

\* the bytes rand::random::<u8>() may return, in the model
RandomBytes == {\h00, \h5A, \hFF}

IsRnd(opcode) == opcode >= 0 /\ Nibble(opcode, 3) = 12

IsCall(opcode) == opcode >= 0 /\ Nibble(opcode, 3) = 2

IsRet(opcode) == opcode >= 0 /\ Nibble(opcode, 3) = 0 /\ LowByte(opcode) = \hEE

\* the cells of memory `old` that differ in `now`, with the bytes they held in `old`
Overwritten(old, now) ==
    IF old = now THEN [a \in {} |-> 0]
    ELSE [a \in {k \in DOMAIN old \cup DOMAIN now : MemRead(old, k) # MemRead(now, k)} |->
             MemRead(old, a)]

\* what one iteration of the loop leaves, the events polled not breaking the loop:
\* c is the chip after the poll, ms the time the iteration takes.  entry is what the
\* history keeps of the cycle: the chip it ran on, the opcode, the panic, the timers
\* before the tick, the innermost pending CALL
Iteration(c, ms, random) ==
    LET f == fetch(c)
        out == IF f.panic # "none" THEN Panic(f.chip, f.panic)
               ELSE Dispatch(f.chip, f.opcode, random)
        t == timer_tick(out.chip, last_update + ms)
    IN  [chip |-> IF out.panic # "none" THEN out.chip ELSE t.chip,
         run |-> IF out.panic # "none" THEN out.panic ELSE "running",
         last_update |-> IF out.panic # "none" THEN last_update ELSE t.last_update,
         entry |-> [before |-> [c EXCEPT !.memory = Overwritten(c.memory, out.chip.memory)],
                    opcode |-> f.opcode, panic |-> out.panic,
                    dt |-> out.chip.dt, st |-> out.chip.st,
                    ms |-> ms, waited |-> last_update,
                    pending |-> SubSeq(calls, 1, IF calls = <<>> THEN 0 ELSE 1),
                    ticked |-> out.panic = "none" /\ t.ticked]]

\* the history keeps the last HistLen cycles
HistLen == 2

Remember(entry) == SubSeq(<<entry>> \o hist, 1, IF Len(hist) < HistLen THEN Len(hist) + 1 ELSE HistLen)

\* what has passed since the timer was last set by its opcode Fx15 / Fx18 (kk), the
\* cycle e included: the value set, the ticks and the milliseconds since; the count
\* stops once the ticks have outnumbered the value set
Elapse(was, e, kk, now) ==
    LET start == IF e.panic = "none" /\ e.opcode >= 0 /\ Nibble(e.opcode, 3) = 15
                     /\ LowByte(e.opcode) = kk
                  THEN [set |-> now, ticks |-> 0, ms |-> 0]
                  ELSE was
    IN  IF e.panic # "none" \/ start.ticks > start.set THEN start
        ELSE [start EXCEPT !.ticks = @ + (IF e.ticked THEN 1 ELSE 0), !.ms = @ + e.ms]

\* the cells the cycle e aims at as Fx33 (I..I+2) or Fx55 (I..I+x)
Targets(e) ==
    IF e.opcode < 0 \/ Nibble(e.opcode, 3) # 15 THEN {}
    ELSE IF LowByte(e.opcode) = \h33 THEN {e.before.i + k : k \in 0..2}
    ELSE IF LowByte(e.opcode) = \h55 THEN {e.before.i + k : k \in 0..Nibble(e.opcode, 2)}
    ELSE {}

\* one iteration of 'running: poll, fetch, dispatch, render, timers, sleep
Cycle ==
    /\ run = "running"
    /\ \E batch \in BatchesOf(host.events, MaxBatch), ms \in host.pace :
         LET p == poll(chip, batch)
         IN  /\ ~p.quit
             /\ \E random \in (IF IsRnd(fetch(p.chip).opcode) THEN RandomBytes ELSE {0}) :
                  LET it == Iteration(p.chip, ms, random)
                      e == it.entry
                  IN  /\ chip' = it.chip
                      /\ run' = it.run
                      /\ last_update' = it.last_update
                      /\ hist' = Remember(e)
                      /\ calls' = IF e.panic # "none" THEN calls
                                  ELSE IF IsCall(e.opcode)
                                       THEN <<[site |-> e.before.pc, sp |-> e.before.sp]>> \o calls
                                  ELSE IF IsRet(e.opcode) /\ calls # <<>> THEN Tail(calls)
                                  ELSE calls
                      /\ since' = [dt |-> Elapse(since.dt, e, \h15, e.dt),
                                   st |-> Elapse(since.st, e, \h18, e.st)]
                      /\ image' = [changed |-> [a \in DOMAIN image.changed \cup DOMAIN e.before.memory |->
                                                    IF a \in DOMAIN image.changed THEN image.changed[a]
                                                    ELSE e.before.memory[a]],
                                   targets |-> image.targets \cup Targets(e)]
    /\ UNCHANGED <<overflow_checks, host>>

\* break 'running: the events before the breaking one are applied, no opcode is fetched
Quit ==
    /\ run = "running"
    /\ \E batch \in BatchesOf(host.events, MaxBatch) :
         LET p == poll(chip, batch)
         IN  /\ p.quit
             /\ chip' = p.chip
    /\ run' = "quit"
    /\ UNCHANGED <<overflow_checks, last_update, host, hist, calls, since, image>>

---------------------------------------------------------------------------
(* The runs of the model: a ROM, a host, a build *)

OpXKK(top, x, kk) == top * 4096 + x * 256 + kk

OpXYN(top, x, y, n) == top * 4096 + x * 256 + y * 16 + n

OpNNN(top, nnn) == top * 4096 + nnn

\* the address of the k-th opcode (from 0) of a ROM
At(k) == RomBase + 2 * k

\* the file: the opcodes big-endian
BytesOf(ops) == [k \in 1..(2 * Len(ops)) |->
                    IF k % 2 = 1 THEN ops[(k + 1) \div 2] \div 256 ELSE ops[k \div 2] % 256]

\* a ROM ends in a jump to itself
Halt(k) == OpNNN(1, At(k))

QuietHost == [events |-> {}, pace |-> {clock}]

EdgeBytes == {0, 1, 3, 128, 255}

AluRegs == {0, 1, 15}

AluOps == (0..8) \cup {14, 15}

\* LD Vx, a; LD Vy, b; 8xyN
AluRoms ==
    { << OpXKK(6, x, a), OpXKK(6, y, b), OpXYN(8, x, y, n), Halt(3) >> :
        x \in AluRegs, y \in AluRegs, a \in EdgeBytes, b \in EdgeBytes, n \in AluOps }

DrawXs == {0, 60, 255}

DrawYs == {0, 30, 255}

DrawHeights == {0, 1, 5, 15}

\* sprite data after the code of a ROM
SpriteData == << \hFF81, \h01AA >>

\* glyph 0, glyph F (rows past it are zero), sprite data of the ROM, the end of memory
DrawSprites == {\h050, \h09B, At(9), \hFFE}

\* a sprite at (a, b), then the same sprite twice at (a2, b), a2 = a or 3 pixels right
DrawRoms ==
    { << OpXKK(6, 0, a), OpXKK(6, 1, b), OpNNN(10, nnn), OpXYN(13, 0, 1, n),
         OpXKK(7, 0, d), OpXYN(13, 0, 1, n), OpXYN(13, 0, 1, n),
         \h00E0, Halt(8) >> \o SpriteData :
        a \in DrawXs, b \in DrawYs, nnn \in DrawSprites, n \in DrawHeights, d \in {0, 3} }

\* the same with VF as the x coordinate: a draw writes its own operand
DrawVFRoms ==
    { << OpXKK(6, 15, a), OpXKK(6, 1, b), OpNNN(10, nnn), OpXYN(13, 15, 1, n),
         OpXYN(13, 15, 1, n), OpXYN(13, 15, 1, n), Halt(6) >> :
        a \in {0, 1, 60}, b \in {0, 30}, nnn \in {\h050}, n \in {1, 5} }

\* k nested CALLs, the innermost subroutine returning first:
\* 0x200 CALL 0x204; 0x202 JP 0x202; 0x204 CALL 0x208; 0x206 RET; ...; RET
Chain(k) ==
    [j \in 1..(2 * k + 1) |->
        LET m == j - 1
        IN  IF m = 1 THEN Halt(1)
            ELSE IF m = 2 * k THEN \h00EE
            ELSE IF m % 2 = 0 THEN OpNNN(2, At(m + 2))
            ELSE \h00EE]

ChainDepths == {1, 2, 3, 16, 17}

\* a CALL of itself; a RET with nothing to return to; a subroutine returning twice
CallRoms ==
    { Chain(k) : k \in ChainDepths }
        \cup { << OpNNN(2, At(0)) >>, << \h00EE >>, << OpNNN(2, At(1)), \h00EE >> }

\* one opcode of each arm of the dispatch, matched or not, the registers being zero
DecodeSamples ==
    { \h0000, \h0100, \h00E0, \h01E0, \h0FEE, \h0001, \h00FF,
      \h5010, \h5011, \h501F, \h9010, \h9011, \h901F, \h3000, \h4000,
      \h8010, \h8018, \h801D, \h801F, \h7001, \hA123, \hC0FF,
      \hE09E, \hE0A1, \hE000, \hE0FF,
      \hF007, \hF00A, \hF015, \hF018, \hF01E, \hF029, \hF033, \hF055, \hF065,
      \hF000, \hF0FF, \hF034 }

DecodeRoms == { << op, Halt(1), Halt(2) >> : op \in DecodeSamples }

\* LD I, nnn; LD V0, b; ADD I, V0; then an access through I
MemAccessOps == { \hF033, \hF055, \hF155, \hF065, \hF165, \hD002 }

MemRoms ==
    { << OpNNN(10, nnn), OpXKK(6, 0, b), \hF01E, op, Halt(4) >> :
        nnn \in {\h300, \hFFD, \hFFE, \hFFF}, b \in {0, 1, 255}, op \in MemAccessOps }

\* jumps to the end of memory and past it
JumpRoms ==
    { << OpXKK(6, 0, b), OpNNN(top, nnn) >> :
        b \in {0, 255}, top \in {1, 11}, nnn \in {\hFFC, \hFFE, \hFFF} }

\* a user at the keys 1 (1), V (F) and P (no CHIP-8 key), who may close the window
KeyHost ==
    [events |-> {KeyDown(k) : k \in {"Num1", "V", "P", "Escape"}}
                  \cup {KeyUp(k) : k \in {"Num1", "V", "P"}}
                  \cup {QuitEvent},
     pace |-> {clock}]

\* timers set, then LD Vx, K
KeyRoms ==
    { << OpXKK(6, 1, 3), \hF115, \hF118, OpXKK(15, x, \h0A), Halt(4) >> : x \in {0, 15} }

\* hosts whose iterations take 5, 16 or 48 ms (faster than 60 Hz, at it, slower), and
\* one whose iterations vary
TimerHosts == { [events |-> {}, pace |-> {ms}] : ms \in {5, clock, 48} }

UnevenHost == [events |-> {}, pace |-> {5, 48}]

\* the delay timer set, read back and set again, then the sound timer set
TimerRoms ==
    { << OpXKK(6, 0, a), OpXKK(6, 1, b), \hF015, \hF207, \hF015, \hF118, Halt(6) >> :
        a \in {0, 1, 3}, b \in {0, 2} }

BcdValues == {0, 9, 10, 99, 100, 234, 255}

\* memory past the ROM, the end of the font table, the target of the ROM's last jump
BcdTargets == {\h300, \h09E, At(3) + 1}

\* LD Vx, v; LD I, nnn; LD B, Vx
BcdRoms ==
    { << OpXKK(6, x, v), OpNNN(10, nnn), OpXKK(15, x, \h33), Halt(3) >> :
        x \in {0, 7, 15}, v \in BcdValues, nnn \in BcdTargets }

\* registers filled, stored, loaded back at once, overwritten, loaded back again
RegRoms ==
    { << \h6011, \h6122, \h6233, \h6F44, OpNNN(10, nnn), OpXKK(15, x, \h55),
         OpXKK(15, x, \h65), \h60AA, \h61BB, \h6FCC, OpXKK(15, x, \h65), Halt(11) >> :
        x \in {0, 1, 2, 15}, nnn \in {\h300, \h09E, \hFF8} }

\* LD Vx, v; LD I, 0x234; LD F, Vx; the glyph drawn
FontRoms ==
    { << OpXKK(6, x, v), \hA234, OpXKK(15, x, \h29), \hD115, Halt(4) >> :
        x \in {0, 5, 15}, v \in {0, 1, 9, 15, 16, 255} }

\* LD V0, a; LD V1, b; a skip on them; and JP V0 into the ROM
SkipRoms ==
    { << OpXKK(6, 0, a), OpXKK(6, 1, b), op, Halt(3), Halt(4) >> :
        a \in {0, 7}, b \in {0, 7}, op \in {\h3007, \h4007, \h5010, \h9010, \h5000, \h9000} }
        \cup { << \h6002, \hB204, Halt(2), Halt(3) >> }

\* a user who presses and releases 1 and presses V (F)
SkipHost == [events |-> {KeyDown("Num1"), KeyUp("Num1"), KeyDown("V")}, pace |-> {clock}]

\* LD Vx, v; SKP Vx; SKNP Vx
KeySkipRoms ==
    { << OpXKK(6, x, v), OpXKK(14, x, \h9E), OpNNN(1, At(3)), OpXKK(14, x, \hA1),
         Halt(4), Halt(5) >> :
        x \in {0, 15}, v \in {0, 1, 15, 16, 255} }

\* LD VA, 5; LD DT, VA; then Vx loaded, added to, drawn at random, read from the timer
VxRoms ==
    { << \h6A05, \hFA15, OpXKK(6, x, a), OpXKK(7, x, kk), OpXKK(12, x, mask),
         OpXKK(15, x, \h07), Halt(6) >> :
        x \in {0, 10, 15}, a \in {1, 255}, kk \in {1, 255}, mask \in {\h0F, \hFF} }

\* the glyph 0 drawn, then an opcode 0nkk
SysRoms ==
    { << \hA050, \hD005, op, Halt(3) >> : op \in {\h00E0, \h01E0, \h0FE0, \h0000, \h0200} }

Scenarios ==
    { [rom |-> r, host |-> QuietHost] :
        r \in AluRoms \cup DrawRoms \cup DrawVFRoms \cup CallRoms \cup DecodeRoms
                 \cup MemRoms \cup JumpRoms \cup BcdRoms \cup RegRoms \cup FontRoms \cup SysRoms
                 \cup SkipRoms \cup VxRoms }
        \cup { [rom |-> r, host |-> KeyHost] : r \in KeyRoms }
        \cup { [rom |-> r, host |-> SkipHost] : r \in KeySkipRoms }
        \cup { [rom |-> r, host |-> h] : r \in TimerRoms, h \in TimerHosts }
        \cup { [rom |-> r, host |-> UnevenHost] : r \in TimerRoms }

Init ==
    \E s \in Scenarios, oc \in BOOLEAN :
        /\ chip = load_rom(load_font(new), BytesOf(s.rom))
        /\ run = "running"
        /\ overflow_checks = oc
        /\ last_update = 0
        /\ host = s.host
        /\ hist = <<>>
        /\ calls = <<>>
        /\ since = [dt |-> [set |-> 0, ticks |-> 0, ms |-> 0],
                    st |-> [set |-> 0, ticks |-> 0, ms |-> 0]]
        /\ image = [changed |-> [a \in {} |-> 0], targets |-> {}]

Next == Cycle \/ Quit

Spec == Init /\ [][Next]_vars

---------------------------------------------------------------------------
(* The claims.  hist[1] is the last cycle: hist[1].before is the chip the   *)
(* instruction ran on (its memory field: the cells the cycle overwrote,    *)
(* as they were), chip is what the cycle left.                             *)

\* the last cycle ran an opcode 8xyN to its end
Ran8(n) ==
    /\ hist # <<>>
    /\ hist[1].panic = "none"
    /\ Nibble(hist[1].opcode, 3) = 8
    /\ Nibble(hist[1].opcode, 0) = n

OpX == Nibble(hist[1].opcode, 2)

OpY == Nibble(hist[1].opcode, 1)

OldV(r) == hist[1].before.v[Ix(r)]

\* C1 as stated: after 8xy4, for every x and y, Vx = (old Vx + old Vy) mod 256 and
\* VF = 1 if old Vx + old Vy > 255, else 0.
C1_AddAsStated ==
    Ran8(4) =>
        /\ chip.v[Ix(OpX)] = (OldV(OpX) + OldV(OpY)) % 256
        /\ chip.v[Ix(15)] = IF OldV(OpX) + OldV(OpY) > 255 THEN 1 ELSE 0

\* C1 amended: after 8xy4, VF = 1 if old Vx + old Vy > 255, else 0, for every x and y;
\* Vx = (old Vx + old Vy) mod 256 for every x other than F (for x = F the register
\* holds the carry).
C1_AddCarry ==
    Ran8(4) =>
        /\ chip.v[Ix(15)] = (IF OldV(OpX) + OldV(OpY) > 255 THEN 1 ELSE 0)
        /\ OpX # 15 => chip.v[Ix(OpX)] = (OldV(OpX) + OldV(OpY)) % 256

\* C1's case: an 8xy4 whose sum overflows, x not F
C1_Witness == Ran8(4) /\ OpX # 15 /\ OpX # OpY /\ OldV(OpX) + OldV(OpY) > 255

\* C2: after 8xy5, VF = 1 iff old Vx > old Vy and Vx = (old Vx - old Vy) mod 256;
\* after 8xy7, VF = 1 iff old Vy > old Vx and Vx = (old Vy - old Vx) mod 256; flag and
\* difference are both taken from the registers as they were before the instruction.
C2_SubAsStated ==
    /\ Ran8(5) =>
        /\ chip.v[Ix(15)] = (IF OldV(OpX) > OldV(OpY) THEN 1 ELSE 0)
        /\ chip.v[Ix(OpX)] = (OldV(OpX) - OldV(OpY)) % 256
    /\ Ran8(7) =>
        /\ chip.v[Ix(15)] = (IF OldV(OpY) > OldV(OpX) THEN 1 ELSE 0)
        /\ chip.v[Ix(OpX)] = (OldV(OpY) - OldV(OpX)) % 256

\* C3: after 8xy6, VF = bit 0 of old Vx and Vx = old Vx >> 1; after 8xyE, VF = bit 7
\* of old Vx and Vx = (old Vx << 1) mod 256; whatever y and Vy are.
C3_ShiftAsStated ==
    /\ Ran8(6) =>
        /\ chip.v[Ix(15)] = OldV(OpX) % 2
        /\ chip.v[Ix(OpX)] = OldV(OpX) \div 2
    /\ Ran8(14) =>
        /\ chip.v[Ix(15)] = (OldV(OpX) \div 128) % 2
        /\ chip.v[Ix(OpX)] = (OldV(OpX) * 2) % 256

\* the k-th last cycle ran a Dxyn to its end
RanDraw(k) ==
    /\ Len(hist) >= k
    /\ hist[k].panic = "none"
    /\ Nibble(hist[k].opcode, 3) = 13

\* the pixels the sprite of the k-th last cycle's Dxyn covers with a set bit: row r, bit b
\* counted from the most significant, at ((Vx mod 64 + b) mod 64, (Vy mod 32 + r) mod 32)
SpritePixels(k) ==
    LET e == hist[k]
        vx == e.before.v[Ix(Nibble(e.opcode, 2))]
        vy == e.before.v[Ix(Nibble(e.opcode, 1))]
        n == Nibble(e.opcode, 0)
    IN  { <<((vx % 64) + rb[2]) % 64, ((vy % 32) + rb[1]) % 32>> :
            rb \in { q \in (0..(n - 1)) \X (0..7) :
                       Bit(MemRead(chip.memory, e.before.i + q[1]), 7 - q[2]) = 1 } }

SymDiff(A, B) == (A \ B) \cup (B \ A)

\* C4: a Dxyn toggles exactly the pixels its sprite covers with a set bit, wrapping on
\* both axes, and changes no other pixel; afterwards VF = 1 iff a pixel that was on
\* before the draw is off after it, whatever VF was.
C4_DrawXor ==
    RanDraw(1) =>
        /\ chip.framebuffer = SymDiff(hist[1].before.framebuffer, SpritePixels(1))
        /\ chip.framebuffer \subseteq (0..63) \X (0..31)
        /\ chip.v[Ix(15)] = (IF hist[1].before.framebuffer \ chip.framebuffer # {} THEN 1 ELSE 0)

\* C4's case: a draw that wraps on both axes, erases a pixel and sets another, VF being 0 before
C4_Witness ==
    /\ RanDraw(1)
    /\ hist[1].before.v[Ix(15)] = 0
    /\ hist[1].before.v[Ix(0)] % 64 > 56
    /\ hist[1].before.v[Ix(1)] % 32 > 28
    /\ Nibble(hist[1].opcode, 0) = 5
    /\ hist[1].before.framebuffer \ chip.framebuffer # {}
    /\ chip.framebuffer \ hist[1].before.framebuffer # {}
    /\ \E p \in chip.framebuffer : p[1] < 4 /\ p[2] < 2

\* the last two cycles ran the same Dxyn at the same coordinates, I being the same
DrewTwice ==
    /\ RanDraw(1)
    /\ RanDraw(2)
    /\ hist[1].opcode = hist[2].opcode
    /\ hist[1].before.v[Ix(Nibble(hist[1].opcode, 2))] = hist[2].before.v[Ix(Nibble(hist[2].opcode, 2))]
    /\ hist[1].before.v[Ix(Nibble(hist[1].opcode, 1))] = hist[2].before.v[Ix(Nibble(hist[2].opcode, 1))]
    /\ hist[1].before.i = hist[2].before.i

\* C5: the same Dxyn twice in a row at the same coordinates leaves the framebuffer as it
\* was before the first draw; VF is then 1 iff the second draw erased a pixel (a set
\* sprite bit over a set pixel).
C5_DrawTwice ==
    DrewTwice =>
        /\ chip.framebuffer = hist[2].before.framebuffer
        /\ chip.v[Ix(15)] = (IF SpritePixels(1) \cap hist[1].before.framebuffer # {} THEN 1 ELSE 0)

\* C5's case: two draws over a screen that was not empty, at a position that wraps,
\* the second erasing what the first set
C5_Witness ==
    /\ DrewTwice
    /\ hist[2].before.framebuffer # {}
    /\ hist[1].before.framebuffer # hist[2].before.framebuffer
    /\ hist[1].before.v[Ix(0)] % 64 > 56
    /\ chip.v[Ix(15)] = 1

\* the last cycle fetched a CALL / a RET, and ran it to its end or not
FetchedCall == hist # <<>> /\ IsCall(hist[1].opcode)

FetchedRet == hist # <<>> /\ IsRet(hist[1].opcode)

Halted == run \in PanicMessages

\* C6: a RET leaves PC at the address after the CALL it answers and SP as it was before
\* that CALL, whatever calls and returns ran in between; the stack holds the return
\* addresses of the pending CALLs, innermost on top, so that they are returned last in
\* first out; a CALL with fewer than 16 pending succeeds, a CALL with 16 pending halts
\* the run and stores nothing.
C6_CallReturn ==
    /\ FetchedRet /\ hist[1].panic = "none" =>
          /\ hist[1].pending # <<>>
          /\ chip.pc = hist[1].pending[1].site + 2
          /\ chip.sp = hist[1].pending[1].sp
    /\ run = "running" =>
          /\ chip.sp = Len(calls)
          /\ \A k \in 1..Len(calls) :
                /\ calls[k].sp = Len(calls) - k
                /\ chip.stack[Ix(calls[k].sp)] = calls[k].site + 2
    /\ FetchedCall /\ hist[1].before.sp < 16 => hist[1].panic = "none"
    /\ FetchedCall /\ hist[1].before.sp >= 16 =>
          /\ Halted
          /\ chip.stack = hist[1].before.stack
          /\ chip.sp = hist[1].before.sp

\* C6's case: the outermost of 16 nested calls has returned
C6_Witness ==
    /\ FetchedRet
    /\ hist[1].panic = "none"
    /\ calls = <<>>
    /\ chip.stack[Ix(15)] # 0
    /\ chip.pc = At(1)

\* C7: in every reachable state 0 <= SP <= 16 and SP is the number of CALLs executed
\* less the number of RETs executed; a RET with SP = 0 halts the run, SP never wraps.
C7_StackPointerAsStated ==
    /\ chip.sp \in 0..16
    /\ chip.sp = Len(calls)
    /\ FetchedRet /\ hist[1].before.sp = 0 => Halted /\ chip.sp = 0

\* the opcodes C8 lists as matching no instruction
Unmatched(opcode) ==
    LET top == Nibble(opcode, 3)
        n == Nibble(opcode, 0)
        kk == LowByte(opcode)
    IN  \/ top \in {5, 9} /\ n # 0
        \/ top = 8 /\ n \in (8..13) \cup {15}
        \/ top = 14 /\ kk \notin {\h9E, \hA1}
        \/ top = 15 /\ kk \notin {\h07, \h0A, \h15, \h18, \h1E, \h29, \h33, \h55, \h65}

\* the last cycle overwrote no cell of memory
MemoryKept == DOMAIN hist[1].before.memory = {}

\* C8: an opcode that matches no instruction pattern (5xyN and 9xyN with N # 0, 8xyN
\* with N in 8..D or F, Exkk and Fxkk with an unlisted kk) halts the run with the
\* invalid-opcode failure and changes nothing but the PC the fetch advanced; it is
\* never run as a no-op or as another instruction.
C8_UnknownOpcodeAsStated ==
    hist # <<>> /\ hist[1].opcode >= 0 /\ Unmatched(hist[1].opcode) =>
        /\ run = InvalidOpcode
        /\ chip.pc = hist[1].before.pc + 2
        /\ [chip EXCEPT !.pc = 0, !.memory = <<>>] = [hist[1].before EXCEPT !.pc = 0, !.memory = <<>>]
        /\ MemoryKept

\* the addresses the cycle e uses: the fetch at pc and pc + 1, then what its opcode
\* reaches through I, when the fetch gave an opcode
Accesses(e) ==
    LET top == Nibble(e.opcode, 3)
        x == Nibble(e.opcode, 2)
        n == Nibble(e.opcode, 0)
        kk == LowByte(e.opcode)
        i == e.before.i
    IN  {e.before.pc, e.before.pc + 1}
           \cup (IF e.opcode < 0 THEN {}
                 ELSE IF top = 13 THEN {i + r : r \in 0..(n - 1)}
                 ELSE IF top = 15 /\ kk = \h33 THEN {i, i + 1, i + 2}
                 ELSE IF top = 15 /\ kk \in {\h55, \h65} THEN {i + r : r \in 0..x}
                 ELSE {})

\* C9 as stated: every address a cycle uses, at the fetch or through I, is within
\* 0x000..0xFFF; no reachable state lets an instruction use an address above 0xFFF.
C9_AddressesAsStated ==
    hist # <<>> => Accesses(hist[1]) \subseteq 0..\hFFF

\* C9 amended: no cycle reads or writes outside 0x000..0xFFF: a cycle that runs to its
\* end used addresses within 0x000..0xFFF only, and a cycle whose fetch or I-based
\* access reaches an address above 0xFFF halts the run there; memory never holds a
\* cell outside 0x000..0xFFF.
C9_NoAccessOutside ==
    /\ DOMAIN chip.memory \subseteq 0..\hFFF
    /\ hist # <<>> /\ hist[1].panic = "none" => Accesses(hist[1]) \subseteq 0..\hFFF
    /\ hist # <<>> /\ ~(Accesses(hist[1]) \subseteq 0..\hFFF) => Halted

\* C9's case: an Fx55 through an I that ADD I, Vx raised past the end of memory halted the run
C9_Witness ==
    /\ Halted
    /\ Len(hist) = 2
    /\ hist[1].opcode = \hF155
    /\ hist[2].opcode = \hF01E
    /\ hist[1].before.i > hist[2].before.i
    /\ hist[1].before.i = \hFFF

\* the k-th last cycle ran an Fx0A to its end
RanLoadKey(k) ==
    /\ Len(hist) >= k
    /\ hist[k].panic = "none"
    /\ Nibble(hist[k].opcode, 3) = 15
    /\ LowByte(hist[k].opcode) = \h0A

\* C10: an Fx0A run with no key down leaves PC at that Fx0A and changes no register,
\* I, SP, stack, memory or framebuffer, and the next cycle, if still no key is down,
\* fetches the same Fx0A again; run with a key down, it stores the lowest key that is
\* down in Vx and PC is at the next instruction.
C10_AwaitKey ==
    /\ RanLoadKey(1) /\ hist[1].before.keyboard = {} =>
          /\ chip.pc = hist[1].before.pc
          /\ chip.v = hist[1].before.v
          /\ chip.i = hist[1].before.i
          /\ chip.sp = hist[1].before.sp
          /\ chip.stack = hist[1].before.stack
          /\ chip.framebuffer = hist[1].before.framebuffer
          /\ MemoryKept
    /\ RanLoadKey(2) /\ hist[2].before.keyboard = {} /\ hist[1].before.keyboard = {} =>
          /\ hist[1].opcode = hist[2].opcode
          /\ hist[1].before.pc = hist[2].before.pc
    /\ RanLoadKey(1) /\ hist[1].before.keyboard # {} =>
          /\ chip.v[Ix(OpX)] \in hist[1].before.keyboard
          /\ \A k \in hist[1].before.keyboard : chip.v[Ix(OpX)] <= k
          /\ chip.pc = hist[1].before.pc + 2

\* C10's case: an Fx0A that waited one cycle, then found the keys 1 and F down
C10_Witness ==
    /\ RanLoadKey(1)
    /\ RanLoadKey(2)
    /\ hist[2].before.keyboard = {}
    /\ hist[1].before.keyboard = {1, 15}
    /\ chip.v[Ix(OpX)] = 1

\* one tick of a timer: down by one, 0 staying 0
Ticked(t) == IF t > 0 THEN t - 1 ELSE 0

\* the last cycle ran the opcode Fxkk to its end
RanF(kk) ==
    /\ hist # <<>>
    /\ hist[1].panic = "none"
    /\ Nibble(hist[1].opcode, 3) = 15
    /\ LowByte(hist[1].opcode) = kk

\* C11: a timer tick lowers each of the two timers by exactly 1 when it is not 0 and
\* leaves it at 0 when it is 0, one timer whatever the other; a cycle without a tick
\* leaves the timers as its instruction left them; an instruction changes the delay
\* timer only as Fx15 (to Vx) and the sound timer only as Fx18 (to Vx), so a timer never
\* rises otherwise; k ticks after a timer was set to k it is 0 and stays 0.
C11_TimerTick ==
    /\ chip.dt \in 0..255 /\ chip.st \in 0..255
    /\ hist # <<>> /\ hist[1].ticked =>
          chip.dt = Ticked(hist[1].dt) /\ chip.st = Ticked(hist[1].st)
    /\ hist # <<>> /\ ~hist[1].ticked =>
          chip.dt = hist[1].dt /\ chip.st = hist[1].st
    /\ hist # <<>> /\ hist[1].dt # hist[1].before.dt =>
          RanF(\h15) /\ hist[1].dt = OldV(OpX)
    /\ hist # <<>> /\ hist[1].st # hist[1].before.st =>
          RanF(\h18) /\ hist[1].st = OldV(OpX)
    /\ hist # <<>> /\ chip.dt > hist[1].before.dt => RanF(\h15)
    /\ hist # <<>> /\ chip.st > hist[1].before.st => RanF(\h18)
    /\ chip.dt = (IF since.dt.ticks >= since.dt.set THEN 0 ELSE since.dt.set - since.dt.ticks)
    /\ chip.st = (IF since.st.ticks >= since.st.set THEN 0 ELSE since.st.set - since.st.ticks)

\* C11's case: the delay timer was set to 1 and has been ticked twice, the last tick
\* finding it at 0 and the sound timer, just set, at 2
C11_Witness ==
    /\ since.dt.set = 1
    /\ since.dt.ticks = 2
    /\ since.st.set = 2
    /\ hist # <<>>
    /\ hist[1].ticked
    /\ hist[1].dt = 0
    /\ hist[1].st = 2
    /\ chip.dt = 0
    /\ chip.st = 1

\* a 1/60 s tick interval in milliseconds, rounded up: 1000 / 60 is 16.67, clock is 16
TickInterval == clock + 1

\* C12: the timers are decremented by elapsed time, not by cycles: a tick happens only
\* when the time since the last one has reached the tick interval of the code, and
\* while a timer is not 0 the ticks it got since it was set are as many as the tick
\* intervals of the time elapsed since (give or take the one interval under way),
\* whether the cycles take less or more than an interval.
C12_TicksFollowTimeAsStated ==
    /\ hist # <<>> /\ hist[1].ticked => hist[1].waited + hist[1].ms >= clock
    /\ hist # <<>> /\ hist[1].panic = "none" /\ ~hist[1].ticked =>
          hist[1].waited + hist[1].ms < clock
    /\ chip.dt > 0 => since.dt.ticks + 1 >= since.dt.ms \div TickInterval
    /\ chip.st > 0 => since.st.ticks + 1 >= since.st.ms \div TickInterval

\* what the last cycle left outside memory and pc is what it found
RegistersKept ==
    /\ chip.v = hist[1].before.v
    /\ chip.i = hist[1].before.i
    /\ chip.sp = hist[1].before.sp
    /\ chip.stack = hist[1].before.stack

\* C13: Fx33 writes Vx div 100 to memory[I], (Vx div 10) mod 10 to memory[I+1] and
\* Vx mod 10 to memory[I+2], for every x and every Vx: each byte written is a decimal
\* digit and 100 * memory[I] + 10 * memory[I+1] + memory[I+2] = Vx; no other memory
\* cell, no register and not I is changed.
C13_Bcd ==
    RanF(\h33) =>
        LET i == hist[1].before.i
            h == MemRead(chip.memory, i)
            t == MemRead(chip.memory, i + 1)
            u == MemRead(chip.memory, i + 2)
        IN  /\ h = OldV(OpX) \div 100
            /\ t = (OldV(OpX) \div 10) % 10
            /\ u = OldV(OpX) % 10
            /\ {h, t, u} \subseteq 0..9
            /\ 100 * h + 10 * t + u = OldV(OpX)
            /\ DOMAIN hist[1].before.memory \subseteq {i, i + 1, i + 2}
            /\ RegistersKept

\* C13's case: V7 = 234 written as 2, 3, 4 over three cells that held something else
C13_Witness ==
    /\ RanF(\h33)
    /\ OpX = 7
    /\ OldV(7) = 234
    /\ MemRead(chip.memory, chip.i) = 2
    /\ MemRead(chip.memory, chip.i + 1) = 3
    /\ MemRead(chip.memory, chip.i + 2) = 4
    /\ DOMAIN hist[1].before.memory = {chip.i, chip.i + 1, chip.i + 2}

\* C14: Fx55 copies V0..Vx, Vx included, to memory[I..I+x] and changes no other cell, no
\* register and not I; Fx65 copies memory[I..I+x] to V0..Vx, Vx included, and changes
\* no other register, no memory cell and not I; an Fx65 right after an Fx55 with the
\* same x and I leaves V0..Vx as they were before the Fx55.
C14_RegisterBlock ==
    /\ RanF(\h55) =>
          /\ \A k \in 0..OpX : MemRead(chip.memory, hist[1].before.i + k) = OldV(k)
          /\ DOMAIN hist[1].before.memory \subseteq {hist[1].before.i + k : k \in 0..OpX}
          /\ RegistersKept
    /\ RanF(\h65) =>
          /\ \A k \in 0..OpX : chip.v[Ix(k)] = MemRead(chip.memory, hist[1].before.i + k)
          /\ \A k \in (OpX + 1)..15 : chip.v[Ix(k)] = OldV(k)
          /\ MemoryKept
          /\ chip.i = hist[1].before.i
          /\ chip.sp = hist[1].before.sp
          /\ chip.stack = hist[1].before.stack
    /\ RanF(\h65) /\ Len(hist) >= 2 /\ hist[2].panic = "none"
          /\ hist[2].opcode = hist[1].opcode - \h10 /\ hist[2].before.i = hist[1].before.i =>
          \A k \in 0..OpX : chip.v[Ix(k)] = hist[2].before.v[Ix(k)]

\* C14's case: F265 brings V0..V2 back from the cells an F255 wrote them to, V0 and V1
\* having been overwritten since, and leaves VF as overwritten
C14_Witness ==
    /\ RanF(\h65)
    /\ OpX = 2
    /\ OldV(0) = \hAA /\ OldV(1) = \hBB /\ OldV(15) = \hCC
    /\ chip.v[Ix(0)] = \h11 /\ chip.v[Ix(1)] = \h22 /\ chip.v[Ix(2)] = \h33
    /\ chip.v[Ix(15)] = \hCC
    /\ MemRead(chip.memory, chip.i + 2) = \h33
    /\ MemRead(chip.memory, chip.i + 3) = 0

\* the glyph of the hexadecimal digit d, as load_font has it
Glyph(d) == SubSeq(FontData, 5 * d + 1, 5 * d + 5)

\* the font table is in memory as loaded
FontIntact ==
    \A k \in 1..Len(FontData) : MemRead(chip.memory, FontBase + k - 1) = FontData[k]

\* C15: Fx29 sets I to the font base 0x050 plus 5 * Vx; for Vx in 0..15, the font table
\* being as loaded, the five bytes at I..I+4 are the glyph of the digit Vx; A234 then
\* F029 with V0 = 0 leaves I = 0x050.
C15_FontAddress ==
    RanF(\h29) =>
        /\ chip.i = FontBase + 5 * OldV(OpX)
        /\ OldV(OpX) \in 0..15 /\ FontIntact =>
              \A k \in 0..4 : MemRead(chip.memory, chip.i + k) = Glyph(OldV(OpX))[k + 1]
        /\ hist[1].opcode = \hF029 /\ OldV(0) = 0 => chip.i = \h050
        /\ [chip EXCEPT !.i = 0] = [hist[1].before EXCEPT !.i = 0, !.pc = chip.pc,
                                      !.memory = chip.memory, !.dt = chip.dt, !.st = chip.st]

\* C15's case: I was 0x234, V5 = 9, and F529 left I on the glyph of 9
C15_Witness ==
    /\ RanF(\h29)
    /\ OpX = 5
    /\ OldV(5) = 9
    /\ hist[1].before.i = \h234
    /\ chip.i = \h07D
    /\ FontIntact

\* C16: the framebuffer changes only in a cycle that executes Dxyn or 00E0: every other
\* opcode, the timer tick and the key events leave every pixel as it was; 00E0 leaves
\* no pixel set whatever the screen held, and changes no register, not I, SP, the
\* stack, memory or the timers.
C16_FramebufferAsStated ==
    /\ hist # <<>> /\ chip.framebuffer # hist[1].before.framebuffer =>
          /\ hist[1].panic = "none"
          /\ Nibble(hist[1].opcode, 3) = 13 \/ hist[1].opcode = \h00E0
    /\ hist # <<>> /\ hist[1].panic = "none" /\ hist[1].opcode = \h00E0 =>
          /\ chip.framebuffer = {}
          /\ RegistersKept
          /\ MemoryKept
          /\ hist[1].dt = hist[1].before.dt
          /\ hist[1].st = hist[1].before.st

\* the opcodes whose instruction is no jump, call, return, skip or await-key
Sequential(opcode) ==
    LET top == Nibble(opcode, 3)
        n == Nibble(opcode, 0)
        kk == LowByte(opcode)
    IN  \/ top \in {6, 7, 10, 12, 13}
        \/ top = 0 /\ kk \in {\h00, \hE0}
        \/ top = 8 /\ n \in (0..7) \cup {14}
        \/ top = 15 /\ kk \in {\h07, \h15, \h18, \h1E, \h29, \h33, \h55, \h65}

\* the condition of the skip 3xkk, 4xkk, 5xy0, 9xy0 on the registers of the chip c
SkipCondition(opcode, c) ==
    LET top == Nibble(opcode, 3)
        vx == c.v[Ix(Nibble(opcode, 2))]
        vy == c.v[Ix(Nibble(opcode, 1))]
    IN  CASE top = 3 -> vx = LowByte(opcode)
          [] top = 4 -> vx # LowByte(opcode)
          [] top = 5 -> vx = vy
          [] top = 9 -> vx # vy

\* C17: a cycle fetches the opcode at PC = p, adds 2 to PC and then applies the
\* instruction: it ends with PC = p + 2 after an instruction that is no jump, call,
\* return, skip or await-key; p + 4 after a skip 3xkk, 4xkk, 5xy0, 9xy0 whose condition
\* holds and p + 2 after one whose condition does not; nnn after 1nnn and 2nnn;
\* nnn + V0 after Bnnn; and 2nnn stores p + 2 on the stack.
C17_ProgramCounter ==
    hist # <<>> /\ hist[1].panic = "none" =>
        LET op == hist[1].opcode
            top == Nibble(op, 3)
            p == hist[1].before.pc
        IN  /\ op = MemRead(chip.memory, p) * 256 + MemRead(chip.memory, p + 1)
                  \/ {p, p + 1} \cap DOMAIN hist[1].before.memory # {}
            /\ Sequential(op) => chip.pc = p + 2
            /\ top \in {3, 4} \/ (top \in {5, 9} /\ Nibble(op, 0) = 0) =>
                  chip.pc = (IF SkipCondition(op, hist[1].before) THEN p + 4 ELSE p + 2)
            /\ top \in {1, 2} => chip.pc = Low12(op)
            /\ top = 11 => chip.pc = Low12(op) + OldV(0)
            /\ top = 2 => chip.stack[Ix(hist[1].before.sp)] = p + 2

\* C17's case: SNE V0, V1 with V0 = 7 and V1 = 0 skipped the opcode after it
C17_Witness ==
    /\ hist # <<>>
    /\ hist[1].panic = "none"
    /\ hist[1].opcode = \h9010
    /\ OldV(0) = 7
    /\ OldV(1) = 0
    /\ chip.pc = hist[1].before.pc + 4
    /\ chip.pc = At(4)

\* the last cycle fetched the opcode Exkk
FetchedE(kk) ==
    /\ hist # <<>>
    /\ hist[1].opcode >= 0
    /\ Nibble(hist[1].opcode, 3) = 14
    /\ LowByte(hist[1].opcode) = kk

\* C18: Ex9E skips the next instruction iff the key whose index is the content of Vx is
\* down, ExA1 iff it is not, whatever Vx holds: the instruction runs to its end and
\* its lookup is one of the 16 keys; no instruction changes the keys, which change
\* only by the key events polled before the fetch.
C18_KeySkipAsStated ==
    /\ FetchedE(\h9E) =>
          /\ hist[1].panic = "none"
          /\ chip.pc = hist[1].before.pc + (IF OldV(OpX) \in hist[1].before.keyboard THEN 4 ELSE 2)
    /\ FetchedE(\hA1) =>
          /\ hist[1].panic = "none"
          /\ chip.pc = hist[1].before.pc + (IF OldV(OpX) \in hist[1].before.keyboard THEN 2 ELSE 4)
    /\ hist # <<>> /\ run # "quit" => chip.keyboard = hist[1].before.keyboard
    /\ chip.keyboard \subseteq 0..(NumKeys - 1)

\* the opcodes 6xkk, 7xkk, 8xy0, 8xy1, 8xy2, 8xy3, Cxkk, Fx07: a result in Vx, no flag
WritesVxOnly(opcode) ==
    LET top == Nibble(opcode, 3)
    IN  \/ top \in {6, 7, 12}
        \/ top = 8 /\ Nibble(opcode, 0) \in 0..3
        \/ top = 15 /\ LowByte(opcode) = \h07

\* the opcodes 8xy4, 8xy5, 8xy6, 8xy7, 8xyE, Dxyn: VF is their flag
WritesFlag(opcode) ==
    \/ Nibble(opcode, 3) = 8 /\ Nibble(opcode, 0) \in {4, 5, 6, 7, 14}
    \/ Nibble(opcode, 3) = 13

\* C19: VF changes as a flag only in 8xy4, 8xy5, 8xy6, 8xy7, 8xyE and Dxyn (otherwise
\* only as the register an instruction with x = F writes its result to); for x other
\* than F, 6xkk, 7xkk, 8xy0, 8xy1, 8xy2, 8xy3, Cxkk and Fx07 change Vx and no other
\* register, VF included; 7xkk leaves Vx = (old Vx + kk) mod 256 and no carry in VF;
\* 6xkk leaves Vx = kk, so 0x6A05 leaves VA = 5.
C19_OnlyVx ==
    hist # <<>> /\ hist[1].panic = "none" =>
        LET op == hist[1].opcode
            top == Nibble(op, 3)
            n == Nibble(op, 0)
            kk == LowByte(op)
        IN  /\ chip.v[Ix(15)] # OldV(15) =>
                  \/ WritesFlag(op)
                  \/ OpX = 15 /\ (WritesVxOnly(op) \/ (top = 15 /\ kk \in {\h0A, \h65}))
            /\ WritesVxOnly(op) /\ OpX # 15 =>
                  /\ \A r \in (0..15) \ {OpX} : chip.v[Ix(r)] = OldV(r)
                  /\ chip.i = hist[1].before.i
            /\ top = 6 => chip.v[Ix(OpX)] = kk
            /\ top = 7 => chip.v[Ix(OpX)] = (OldV(OpX) + kk) % 256
            /\ top = 8 /\ n = 0 => chip.v[Ix(OpX)] = OldV(OpY)
            /\ top = 8 /\ n \in 1..3 =>
                  \A b \in 0..7 :
                      Bit(chip.v[Ix(OpX)], b) =
                          CASE n = 1 -> (IF Bit(OldV(OpX), b) = 1 \/ Bit(OldV(OpY), b) = 1 THEN 1 ELSE 0)
                            [] n = 2 -> (IF Bit(OldV(OpX), b) = 1 /\ Bit(OldV(OpY), b) = 1 THEN 1 ELSE 0)
                            [] n = 3 -> (IF Bit(OldV(OpX), b) # Bit(OldV(OpY), b) THEN 1 ELSE 0)
            /\ top = 12 => /\ chip.v[Ix(OpX)] \in 0..255
                           /\ \A b \in 0..7 : Bit(chip.v[Ix(OpX)], b) <= Bit(kk, b)
            /\ top = 15 /\ kk = \h07 => chip.v[Ix(OpX)] = hist[1].before.dt
            /\ op = \h6A05 => chip.v[Ix(10)] = 5

\* C19's case: ADD VA, 0xFF with VA = 255 left VA = 254 and VF = 0
C19_Witness ==
    /\ hist # <<>>
    /\ hist[1].panic = "none"
    /\ hist[1].opcode = \h7AFF
    /\ OldV(10) = 255
    /\ chip.v[Ix(10)] = 254
    /\ chip.v[Ix(15)] = 0

\* the cells of the font table
FontCells == FontBase..(FontBase + Len(FontData) - 1)

\* C20: after the load, memory is written only by Fx33, within I..I+2, and by Fx55,
\* within I..I+x: every cell no Fx33 or Fx55 has aimed at holds what the load left
\* there, whatever instructions, timer ticks and key events there were; so the font
\* table and the program bytes are as loaded as long as no Fx33 or Fx55 aimed at them.
C20_MemoryWrites ==
    /\ hist # <<>> /\ ~MemoryKept =>
          /\ Nibble(hist[1].opcode, 3) = 15
          /\ LowByte(hist[1].opcode) \in {\h33, \h55}
          /\ DOMAIN hist[1].before.memory \subseteq Targets(hist[1])
    /\ DOMAIN image.changed \subseteq image.targets
    /\ image.targets \cap FontCells = {} => FontIntact
    /\ {a \in image.targets : a >= RomBase} = {} =>
          {a \in DOMAIN image.changed : a >= RomBase} = {}

\* C20's case: an Fx33 has written three cells past the program, then a jump ran, and
\* the font is as loaded
C20_Witness ==
    /\ Len(hist) = 2
    /\ Nibble(hist[2].opcode, 3) = 15 /\ LowByte(hist[2].opcode) = \h33
    /\ Nibble(hist[1].opcode, 3) = 1
    /\ image.targets = {\h300, \h301, \h302}
    /\ DOMAIN image.changed = image.targets
    /\ MemRead(chip.memory, \h300) = 2
    /\ FontIntact

=============================================================================
